---- MODULE Spec2Model ----
(***************************************************************************)
(* Verification model of pewpi-shared: the Integration Listener (event     *)
(* bus) of src/unnamed/part_000, the Machines Adapter and the Token        *)
(* Service of src/src/pewpi-shared/machines/adapter.js, and the Auth       *)
(* Service of src/unnamed/part_002.                                        *)
(*                                                                         *)
(* JavaScript runs the synchronous part of an async function to its first  *)
(* await in one step; every action below is one such run-to-await step.    *)
(* What a user handler or action does while it runs (calling on, off,      *)
(* emit, clearListeners, transition, ... itself, or suspending so that     *)
(* another caller does) is the interleaving of the other actions with the  *)
(* step that starts the handler and the step that ends it.                 *)
(***************************************************************************)
EXTENDS Integers, Sequences, FiniteSets, TLC

\* ------------------------------------------------------------------ bounds
\* Each specification bounds the calls made in one behaviour.
\* EmitSpec: many emit calls, one listener.
MaxEmits == 3          \* emit calls
OneListener == 1       \* on calls
OnePriority == 0       \* priorities are drawn from 0..OnePriority
\* ListenerSpec: a few emit calls, a few listeners.
FewEmits == 2          \* emit calls
FewListeners == 2      \* on calls
FewPriority == 1       \* priorities are drawn from 0..FewPriority
\* OrderSpec: one emit call, many listeners.
OneEmit == 1           \* emit calls
MaxListeners == 3      \* on calls
MaxPriority == 2       \* priorities are drawn from 0..MaxPriority
\* MachineSpec
MaxTransitions == 2    \* transition calls
MaxMachines == 2       \* registerMachine calls
\* HistorySpec: more transition calls, and the limits asked of the history.
ManyTransitions == 3   \* transition calls
MaxLimit == 3          \* limits are drawn from 0..MaxLimit
\* TokenSpec
MaxTokens == 2         \* createToken calls
MaxTime == 3           \* Date.now() reports a time in 0..MaxTime
MaxExpiresIn == 1      \* expiresIn is drawn from 0..MaxExpiresIn
\* AuthSpec
MaxAuths == 2          \* authenticate calls
\* CredentialSpec: one authenticate call over every kind of input.
OneAuth == 1           \* authenticate calls
\* RestoreSpec, CoreSpec
OneToken == 1          \* createToken calls
OneTransition == 1     \* transition calls
\* LoaderSpec: a few PewpiShared.initialize calls.
MaxInits == 3          \* PewpiShared.initialize calls

Max(a, b) == IF a >= b THEN a ELSE b
EventTypes == {"a", "b"}
Calls == 1..Max(MaxEmits, Max(FewEmits, OneEmit))
ListenerIds == 1..Max(Max(OneListener, FewListeners), MaxListeners)
AllTypes == "*"        \* clearListeners() without an event type

\* if (this.initialized) { ...; return true; } at the head of initialize,
\* the same in the four components.
NeverAlreadyInitialized(flag) == FALSE
AlreadyInitialized(flag) == flag

\* if (!this.initialized) throw new Error('... Not initialized') at the
\* head of every other operation but getStatus: whether the operation
\* goes on.
IsInitializedAlways(flag) == TRUE
IsInitialized(flag) == flag

\* ------------------------------------------------------------- bus state
VARIABLES
  initialized,    \* IntegrationListener.initialized
  listeners,      \* IntegrationListener.listeners: Map eventType -> array
                  \* (a type without a key holds the empty array)
  eventQueue,     \* IntegrationListener.eventQueue
  processing,     \* IntegrationListener.processing
  frames,         \* one record per emit call: where that async call stands
  nextListenerId, \* ids given out by _generateListenerId, in order
  nextEventId,    \* ids given out by _generateEventId, in order
  emitted,        \* history: per event id, what the bus looked like at emit
  order,          \* history: event ids in the order they were dequeued
  dispatched,     \* history: event ids whose _processEvent has returned
  invocations,    \* history: per listener id, how often its handler started
  threw           \* history: listener ids whose handler has raised

\* -------------------------------------------------------- adapter state
VARIABLES
  mInitialized,   \* MachinesAdapter.initialized
  objs,           \* the machine objects made by registerMachine, in order
  machines,       \* MachinesAdapter.machines: Map machineId -> object
  states,         \* MachinesAdapter.states: Map machineId -> state name
  transitions,    \* MachinesAdapter.transitions: Map machineId -> records
                  \* (an id without a key holds the empty array)
  tcalls,         \* one record per transition call: where it stands
  lastResult      \* what the transition call that settled last came to

\* ---------------------------------------------------- token service state
VARIABLES
  tInitialized,   \* TokenService.initialized
  tokens,         \* TokenService.tokens: Map tokenId -> token record
  nextTokenId,    \* the createToken calls made so far, plus one: an id
                  \* that _generateTokenId has not returned yet
  now,            \* what Date.now() reports
  tResult,        \* what the token service call made last returned
  expiredSeen,    \* history: ids validateToken found expired
  revoked         \* history: ids revokeToken returned true for

\* ----------------------------------------------------- auth service state
VARIABLES
  aInitialized,   \* AuthService.initialized
  currentUser,    \* AuthService.currentUser
  sessions,       \* AuthService.sessions: Map tokenId -> session record
  hasStorage,     \* typeof localStorage !== 'undefined'
  slot,           \* localStorage item 'pewpi_session' (0: no item)
  acalls,         \* one record per authenticate call: where it stands
  nextUserId,     \* user objects made by authenticate, in order
  aResult,        \* what the synchronous auth call made last returned
  loggedOut,      \* history: token ids whose session logout removed
  completed,      \* history: the authenticate or logout that settled last
  notInit         \* history: the call that last raised 'Not initialized'

\* ----------------------------------------------------------- loader state
VARIABLES
  pInitialized,   \* `initialized` of the PewpiShared closure
  pInitializing,  \* `initializing` of the PewpiShared closure
  services,       \* what loadService finds for each service name
  started,        \* history: initialize calls the loader made, per service
  icalls          \* one record per PewpiShared.initialize call

loadVars == <<pInitialized, pInitializing, services, started, icalls>>

authVars == <<aInitialized, currentUser, sessions, hasStorage, slot, acalls,
              nextUserId, aResult, loggedOut, completed, notInit>>

tokVars == <<tInitialized, tokens, nextTokenId, now, tResult, expiredSeen,
             revoked>>

machVars == <<mInitialized, objs, machines, states, transitions, tcalls,
              lastResult>>

busVars == <<initialized, listeners, eventQueue, processing, frames,
             nextListenerId, nextEventId, emitted, order, dispatched,
             invocations, threw>>

NoListener == [id |-> 0, once |-> FALSE, priority |-> 0]

\* An emit call that has not been made yet.
IdleFrame == [pc |-> "idle", own |-> 0, cur |-> 0, curType |-> "",
              idx |-> 0, lst |-> NoListener, detached |-> FALSE,
              snap |-> <<>>, toRemove |-> <<>>, trace |-> <<>>]

\* ------------------------------------------------------------ pure parts

\* Array.prototype.sort with (a, b) => b.priority - a.priority: a stable
\* sort into descending priority, whatever the order of the input.
RECURSIVE InsertDesc(_, _)
InsertDesc(s, l) ==
  IF s = <<>> THEN <<l>>
  ELSE IF Head(s).priority >= l.priority
       THEN <<Head(s)>> \o InsertDesc(Tail(s), l)
       ELSE <<l>> \o s

RECURSIVE SortByPriority(_)
SortByPriority(s) ==
  IF s = <<>> THEN <<>>
  ELSE InsertDesc(SortByPriority(SubSeq(s, 1, Len(s) - 1)), s[Len(s)])

\* The array after on() has pushed the new listener: pushed, then sorted.
PushNoSort(arr, l) == Append(arr, l)
PushAndSort(arr, l) == SortByPriority(Append(arr, l))

\* listeners.splice(index, 1) at the first index holding the id.
RECURSIVE RemoveFirst(_, _)
RemoveFirst(s, id) ==
  IF s = <<>> THEN <<>>
  ELSE IF Head(s).id = id THEN Tail(s)
       ELSE <<Head(s)>> \o RemoveFirst(Tail(s), id)

HasId(s, id) == \E i \in DOMAIN s : s[i].id = id

\* off(listenerId) applied to a listener map: the first event type whose
\* array holds the id loses that entry. Ids are unique, so at most one
\* array holds it and the Map's iteration order does not matter.
OffMap(m, id) ==
  [t \in DOMAIN m |-> IF HasId(m[t], id) THEN RemoveFirst(m[t], id) ELSE m[t]]

\* toRemove.forEach(id => this.off(id))
RECURSIVE OffAll(_, _)
OffAll(m, ids) ==
  IF ids = <<>> THEN m ELSE OffAll(OffMap(m, Head(ids)), Tail(ids))

\* The early return of _processQueue.
SkipsDrainOnlyWhenEmpty(busy, q) == q = <<>>
SkipsDrain(busy, q) == busy \/ q = <<>>

\* this.eventQueue.push(event)
Unshift(q, ev) == <<ev>> \o q
Push(q, ev) == Append(q, ev)

\* this.eventQueue.shift(): the event taken, and the queue left.
Pop(q) == [event |-> q[Len(q)], rest |-> SubSeq(q, 1, Len(q) - 1)]
Shift(q) == [event |-> Head(q), rest |-> Tail(q)]

\* try { await listener.handler(...) } catch (error) { console.error(...) }
HandlerErrorEscapes == FALSE
HandlerErrorCaught == TRUE

\* The array a dispatch iterates: the array object it took from the map.
\* clearListeners drops that object from the map, and the dispatch goes on
\* iterating the dropped object, which nothing changes any more.
ListOf(fr) == IF fr.detached THEN fr.snap ELSE listeners[fr.curType]

Draining(fr) == fr.pc \in {"handler", "between"}

\* -------------------------------------------------------------- bus: Init
BusInit ==
  /\ initialized = FALSE
  /\ listeners = [t \in EventTypes |-> <<>>]
  /\ eventQueue = <<>>
  /\ processing = FALSE
  /\ frames = [f \in Calls |-> IdleFrame]
  /\ nextListenerId = 1
  /\ nextEventId = 1
  /\ emitted = <<>>
  /\ order = <<>>
  /\ dispatched = {}
  /\ invocations = [id \in ListenerIds |-> 0]
  /\ threw = {}

\* ----------------------------------------------------------- bus: actions

\* initialize(): clears the bus the first time, a no-op afterwards.
Initialize ==
  /\ IF AlreadyInitialized(initialized)
     THEN UNCHANGED <<initialized, listeners, eventQueue>>
     ELSE /\ listeners' = [t \in EventTypes |-> <<>>]
          /\ eventQueue' = <<>>
          /\ initialized' = TRUE
  /\ UNCHANGED <<processing, frames, nextListenerId, nextEventId, emitted,
                 order, dispatched, invocations, threw>>
  /\ UNCHANGED <<machVars, tokVars, authVars, loadVars>>

\* on(eventType, handler, {once, priority})
On(t, once, p, maxListeners) ==
  /\ IsInitialized(initialized)
  /\ nextListenerId <= maxListeners
  /\ LET l == [id |-> nextListenerId, once |-> once, priority |-> p]
     IN listeners' = [listeners EXCEPT ![t] = PushAndSort(listeners[t], l)]
  /\ nextListenerId' = nextListenerId + 1
  /\ UNCHANGED <<initialized, eventQueue, processing, frames, nextEventId,
                 emitted, order, dispatched, invocations, threw>>
  /\ UNCHANGED <<machVars, tokVars, authVars, loadVars>>

\* off(listenerId)
Off(id) ==
  /\ IsInitialized(initialized)
  /\ listeners' = OffMap(listeners, id)
  /\ UNCHANGED <<initialized, eventQueue, processing, frames, nextListenerId,
                 nextEventId, emitted, order, dispatched, invocations, threw>>
  /\ UNCHANGED <<machVars, tokVars, authVars, loadVars>>

\* clearListeners(eventType), and clearListeners() for t = AllTypes: the
\* arrays leave the map; a dispatch that iterates one keeps it as it is.
ClearListeners(t) ==
  /\ IsInitialized(initialized)
  /\ LET gone == IF t = AllTypes THEN EventTypes ELSE {t}
     IN /\ listeners' = [u \in EventTypes |->
                           IF u \in gone THEN <<>> ELSE listeners[u]]
        /\ frames' = [g \in Calls |->
                        IF /\ frames[g].pc = "handler"
                           /\ ~frames[g].detached
                           /\ frames[g].curType \in gone
                        THEN [frames[g] EXCEPT !.detached = TRUE,
                                               !.snap = listeners[frames[g].curType]]
                        ELSE frames[g]]
  /\ UNCHANGED <<initialized, eventQueue, processing, nextListenerId,
                 nextEventId, emitted, order, dispatched, invocations, threw>>
  /\ UNCHANGED <<machVars, tokVars, authVars, loadVars>>

\* What the for loop of _processEvent notes when it calls the handler of l.
Invoked(l) == [id |-> l.id, priority |-> l.priority, out |-> "run"]

\* One turn of the while loop of _processQueue run by call f on queue q:
\* shift the event and run _processEvent up to its first await, which is
\* the first handler, or the return when the type has no listener.
LoopBody(f, q) ==
  LET ev == Shift(q).event
      list == listeners[ev.type]
  IN /\ eventQueue' = Shift(q).rest
     /\ order' = Append(order, ev.id)
     /\ IF list = <<>>
        THEN /\ frames' = [frames EXCEPT ![f] =
                             [IdleFrame EXCEPT !.pc = "between", !.own = f]]
             /\ dispatched' = dispatched \cup {ev.id}
             /\ invocations' = invocations
        ELSE /\ frames' = [frames EXCEPT ![f] =
                             [IdleFrame EXCEPT !.pc = "handler", !.own = f,
                                !.cur = ev.id, !.curType = ev.type, !.idx = 1,
                                !.lst = list[1],
                                !.trace = <<Invoked(list[1])>>]]
             /\ dispatched' = dispatched
             /\ invocations' = [invocations EXCEPT ![list[1].id] = @ + 1]

\* emit(eventType, data) by call f, which makes event f. The call runs to
\* the first await of the drain it starts; when _processQueue returns at
\* once, nothing is left in emit between the await of line 557 and its
\* return, and the call counts as returned.
Emit(f, t, maxEmits) ==
  /\ IsInitialized(initialized)
  /\ frames[f].pc = "idle"
  /\ f = nextEventId
  /\ f <= maxEmits
  /\ LET ev == [type |-> t, id |-> nextEventId]
         q == Push(eventQueue, ev)
     IN /\ emitted' = Append(emitted,
              [during |-> {frames[g].cur : g \in {h \in Calls : frames[h].pc = "handler"}},
               ahead |-> {eventQueue[i].id : i \in DOMAIN eventQueue}])
        /\ IF SkipsDrain(processing, q)
           THEN /\ eventQueue' = q
                /\ frames' = [frames EXCEPT ![f] =
                                [IdleFrame EXCEPT !.pc = "returned", !.own = f]]
                /\ UNCHANGED <<processing, order, dispatched, invocations>>
           ELSE /\ processing' = TRUE
                /\ LoopBody(f, q)
  /\ nextEventId' = nextEventId + 1
  /\ UNCHANGED <<initialized, listeners, nextListenerId, threw>>
  /\ UNCHANGED <<machVars, tokVars, authVars, loadVars>>

\* The handler that call f awaits settles: it returned (out = "ok") or it
\* raised (out = "throw"). The for loop of _processEvent goes on to the
\* next index of the array, or the once listeners are removed and
\* _processEvent returns.
HandlerReturn(f, out) ==
  /\ frames[f].pc = "handler"
  /\ LET fr == frames[f]
         list == ListOf(fr)
         rem == IF out = "ok" /\ fr.lst.once
                THEN Append(fr.toRemove, fr.lst.id) ELSE fr.toRemove
         done == [fr.trace EXCEPT ![Len(fr.trace)].out = out]
     IN /\ threw' = IF out = "throw" THEN threw \cup {fr.lst.id} ELSE threw
        /\ IF out = "throw" /\ ~HandlerErrorCaught
           THEN /\ frames' = [frames EXCEPT ![f] =
                                [IdleFrame EXCEPT !.pc = "raised", !.own = f]]
                /\ UNCHANGED <<listeners, dispatched, invocations>>
           ELSE IF fr.idx + 1 <= Len(list)
           THEN /\ frames' = [frames EXCEPT ![f] =
                                [fr EXCEPT !.idx = fr.idx + 1,
                                           !.lst = list[fr.idx + 1],
                                           !.toRemove = rem,
                                           !.trace = Append(done,
                                                       Invoked(list[fr.idx + 1]))]]
                /\ invocations' = [invocations EXCEPT ![list[fr.idx + 1].id] = @ + 1]
                /\ UNCHANGED <<listeners, dispatched>>
           ELSE /\ listeners' = OffAll(listeners, rem)
                /\ frames' = [frames EXCEPT ![f] =
                                [IdleFrame EXCEPT !.pc = "between", !.own = f]]
                /\ dispatched' = dispatched \cup {fr.cur}
                /\ invocations' = invocations
  /\ UNCHANGED <<initialized, eventQueue, processing, nextListenerId,
                 nextEventId, emitted, order>>
  /\ UNCHANGED <<machVars, tokVars, authVars, loadVars>>

\* _processQueue of call f resumes after await this._processEvent(event):
\* the next turn of the loop, or the flag is cleared, _processQueue
\* returns and so does emit.
LoopStep(f) ==
  /\ frames[f].pc = "between"
  /\ IF eventQueue # <<>>
     THEN /\ LoopBody(f, eventQueue)
          /\ UNCHANGED processing
     ELSE /\ processing' = FALSE
          /\ frames' = [frames EXCEPT ![f].pc = "returned"]
          /\ UNCHANGED <<eventQueue, order, dispatched, invocations>>
  /\ UNCHANGED <<initialized, listeners, nextListenerId, nextEventId, emitted,
                 threw>>
  /\ UNCHANGED <<machVars, tokVars, authVars, loadVars>>

\* ======================================================= Machines Adapter

MachineIds == {"m1"}
\* Event names a caller passes to transition. "toString" is no key of any
\* table; every object literal inherits a member of that name.
Events == {"START", "STOP", "toString"}
ProtoKeys == {"toString"}   \* members of Object.prototype
TCalls == 1..Max(MaxTransitions, ManyTransitions)
NoObj == 0             \* Map.get(machineId) of an id without a key
Absent == "absent"     \* no entry in the states map
Undefined == "undefined"
EmptyMap == [k \in {} |-> 0]

\* A transition entry: the plain string form 'running', or the object form
\* {target, actions}; actions lists callables ("fn") and log tags ("tag").
Str(name) == [isString |-> TRUE, name |-> name, target |-> Undefined,
              hasActions |-> FALSE, actions |-> <<>>]
Obj(target, actions) == [isString |-> FALSE, name |-> "", target |-> target,
                         hasActions |-> TRUE, actions |-> actions]

\* What stateConfig.on[event] finds for a name that is no key of the table
\* but a member of Object.prototype: a function, which is neither a string
\* nor an object with target and actions.
Inherited == [isString |-> FALSE, name |-> "", target |-> Undefined,
              hasActions |-> FALSE, actions |-> <<>>]

\* stateConfig.on && stateConfig.on[event]: whether it is truthy, and what
\* it is. The empty map stands for a state without `on`; a table that is
\* there is an object literal and inherits the members of Object.prototype.
HasEntry(on, ev) == ev \in DOMAIN on \/ (on # EmptyMap /\ ev \in ProtoKeys)
Entry(on, ev) == IF ev \in DOMAIN on THEN on[ev] ELSE Inherited

\* The states tables that registerMachine is given: per state name the
\* `on` map of the state. A state without `on` has the empty map.
\* "flow" is the machine of the test script.
FlowStates ==
  [idle |-> [START |-> Str("running")],
   running |-> [STOP |-> Str("idle")]]
\* "acting" carries actions, and a state without outgoing events.
ActingStates ==
  [idle |-> [START |-> Obj("running", <<"tag", "fn", "fn">>)],
   running |-> [STOP |-> Obj("idle", <<"tag">>), START |-> Str("done")],
   done |-> EmptyMap]
\* "dangling" names a target that is not a key of its states.
DanglingStates ==
  [idle |-> [START |-> Str("gone")]]

ConfigNames == {"flow", "acting", "dangling"}
StatesOf(config) ==
  CASE config = "flow" -> FlowStates
    [] config = "acting" -> ActingStates
    [] config = "dangling" -> DanglingStates

\* config.initialState: registerMachine takes any name.
InitialStates == {"idle", "gone"}
\* config.context || {}
InitialContexts == {EmptyMap, [k \in {"u", "w"} |-> 1]}
\* contextUpdates of updateContext: overwrites u, adds v, leaves w
ContextUpdates == {[k \in {"u", "v"} |-> 2]}

\* { ...machine.context, ...contextUpdates }
Merge(ctx, upd) ==
  [k \in DOMAIN ctx \cup DOMAIN upd |-> IF k \in DOMAIN upd THEN upd[k] ELSE ctx[k]]

\* typeof transition === 'string' ? transition : transition.target
TargetFieldOnly(tr) == tr.target
TargetOf(tr) == IF tr.isString THEN tr.name ELSE tr.target

\* The index of the next callable of the action list after index k, or 0:
\* _executeActions passes over the tags without suspending.
LastFn(actions, k) ==
  IF \E i \in DOMAIN actions : i > k /\ actions[i] = "fn"
  THEN CHOOSE i \in DOMAIN actions :
         /\ i > k /\ actions[i] = "fn"
         /\ \A j \in DOMAIN actions : (j > k /\ actions[j] = "fn") => i >= j
  ELSE 0
NextFn(actions, k) ==
  IF \E i \in DOMAIN actions : i > k /\ actions[i] = "fn"
  THEN CHOOSE i \in DOMAIN actions :
         /\ i > k /\ actions[i] = "fn"
         /\ \A j \in DOMAIN actions : (j > k /\ actions[j] = "fn") => i <= j
  ELSE 0

\* The result of a transition call: how it settled ("returned" with a
\* result object, "raised" with an error), for which machine, and whether
\* one of its actions raised.
NoResult == [call |-> 0, how |-> "none", id |-> "", threw |-> FALSE,
             success |-> FALSE, previousState |-> Undefined,
             currentState |-> Undefined, event |-> Undefined,
             error |-> Undefined]

\* A transition call that has not been made yet, and one that has settled.
IdleCall == [pc |-> "idle", id |-> "", obj |-> NoObj, event |-> "",
             target |-> Undefined, actions |-> <<>>, k |-> 0,
             threw |-> FALSE]
DoneCall == [IdleCall EXCEPT !.pc = "done"]

\* A machine object that neither the machines map nor a suspended
\* transition call refers to any more is garbage: nothing can read it, and
\* the model forgets what it held.
DeadObj == [id |-> "", config |-> "", initialState |-> Undefined,
            currentState |-> Undefined, context |-> EmptyMap]
Referenced(o, ms, tcs) ==
  \/ \E id \in MachineIds : ms[id] = o
  \/ \E c \in TCalls : tcs[c].pc \in {"action", "awaiting"} /\ tcs[c].obj = o
Collect(os, ms, tcs) ==
  [o \in DOMAIN os |-> IF Referenced(o, ms, tcs) THEN os[o] ELSE DeadObj]

MachInit ==
  /\ mInitialized = FALSE
  /\ objs = <<>>
  /\ machines = [id \in MachineIds |-> NoObj]
  /\ states = [id \in MachineIds |-> Absent]
  /\ transitions = [id \in MachineIds |-> <<>>]
  /\ tcalls = [c \in TCalls |-> IdleCall]
  /\ lastResult = NoResult

\* initialize()
MInitialize ==
  /\ IF AlreadyInitialized(mInitialized)
     THEN UNCHANGED <<mInitialized, machines, states, transitions>>
     ELSE /\ machines' = [id \in MachineIds |-> NoObj]
          /\ states' = [id \in MachineIds |-> Absent]
          /\ transitions' = [id \in MachineIds |-> <<>>]
          /\ mInitialized' = TRUE
  /\ UNCHANGED <<objs, tcalls, lastResult>>
  /\ UNCHANGED <<busVars, tokVars, authVars, loadVars>>

\* registerMachine(machineId, {initialState, states, context})
RegisterMachine(id, config, init, ctx) ==
  /\ IsInitialized(mInitialized)
  /\ Len(objs) < MaxMachines
  /\ machines' = [machines EXCEPT ![id] = Len(objs) + 1]
  /\ objs' = Collect(Append(objs, [id |-> id, config |-> config,
                                   initialState |-> init,
                                   currentState |-> init, context |-> ctx]),
                     machines', tcalls)
  /\ states' = [states EXCEPT ![id] = init]
  /\ UNCHANGED <<mInitialized, transitions, tcalls, lastResult>>
  /\ UNCHANGED <<busVars, tokVars, authVars, loadVars>>

\* Lines 132-159 of transition: the state change, the record, the result.
\* The previous state is read from the machine object at this moment.
Commit(c, id, o, ev, target, raised) ==
  LET prev == objs[o].currentState
  IN /\ tcalls' = [tcalls EXCEPT ![c] = DoneCall]
     /\ objs' = Collect([objs EXCEPT ![o].currentState = target],
                        machines, tcalls')
     /\ states' = [states EXCEPT ![id] = target]
     /\ transitions' = [transitions EXCEPT ![id] =
                          Append(@, [machineId |-> id, from |-> prev,
                                     to |-> target, event |-> ev])]
     /\ lastResult' = [NoResult EXCEPT !.call = c, !.how = "returned",
                          !.id = id, !.threw = raised, !.success = TRUE,
                          !.previousState = prev, !.currentState = target,
                          !.event = ev]

Raise(c, id, error) ==
  /\ tcalls' = [tcalls EXCEPT ![c] = DoneCall]
  /\ lastResult' = [NoResult EXCEPT !.call = c, !.how = "raised", !.id = id,
                       !.error = error]

\* transition(machineId, event) by call c, up to its first await or its
\* return.
Transition(c, id, ev) ==
  /\ tcalls[c].pc = "idle"
  /\ \A d \in TCalls : d < c => tcalls[d].pc # "idle"
  /\ LET o == machines[id]
     IN IF ~IsInitialized(mInitialized)
        THEN Raise(c, id, "Not initialized")
             /\ UNCHANGED <<objs, states, transitions>>
        ELSE IF o = NoObj
        THEN Raise(c, id, "Machine not found")
             /\ UNCHANGED <<objs, states, transitions>>
        ELSE IF objs[o].currentState \notin DOMAIN StatesOf(objs[o].config)
        THEN Raise(c, id, "Invalid state")
             /\ UNCHANGED <<objs, states, transitions>>
        ELSE LET on == StatesOf(objs[o].config)[objs[o].currentState]
             IN IF ~HasEntry(on, ev)
                THEN /\ tcalls' = [tcalls EXCEPT ![c] = DoneCall]
                     /\ lastResult' = [NoResult EXCEPT
                          !.call = c, !.how = "returned", !.id = id,
                          !.currentState = objs[o].currentState,
                          !.error = "Invalid transition"]
                     /\ UNCHANGED <<objs, states, transitions>>
                ELSE IF ~Entry(on, ev).isString /\ Entry(on, ev).hasActions
                THEN /\ tcalls' = [tcalls EXCEPT ![c] =
                          [IdleCall EXCEPT
                             !.pc = IF NextFn(Entry(on, ev).actions, 0) = 0
                                    THEN "awaiting" ELSE "action",
                             !.id = id, !.obj = o, !.event = ev,
                             !.target = TargetOf(Entry(on, ev)),
                             !.actions = Entry(on, ev).actions,
                             !.k = NextFn(Entry(on, ev).actions, 0)]]
                     /\ UNCHANGED <<objs, states, transitions, lastResult>>
                ELSE Commit(c, id, o, ev, TargetOf(Entry(on, ev)), FALSE)
  /\ UNCHANGED <<mInitialized, machines>>
  /\ UNCHANGED <<busVars, tokVars, authVars, loadVars>>

\* try { await action(...) } catch (error) { console.error(...) }
ActionErrorEscapes == FALSE
ActionErrorCaught == TRUE

\* The callable that call c awaits in _executeActions settles; a raise is
\* caught. The loop goes on to the next callable, or _executeActions
\* returns.
ActionReturn(c, out) ==
  /\ tcalls[c].pc = "action"
  /\ IF out = "throw" /\ ~ActionErrorCaught
     THEN /\ Raise(c, tcalls[c].id, "Action error")
          /\ objs' = Collect(objs, machines, tcalls')
     ELSE /\ LET n == NextFn(tcalls[c].actions, tcalls[c].k)
             IN tcalls' = [tcalls EXCEPT
                             ![c].pc = IF n = 0 THEN "awaiting" ELSE "action",
                             ![c].k = n,
                             ![c].threw = @ \/ out = "throw"]
          /\ UNCHANGED <<objs, lastResult>>
  /\ UNCHANGED <<mInitialized, machines, states, transitions>>
  /\ UNCHANGED <<busVars, tokVars, authVars, loadVars>>

\* transition of call c resumes after await this._executeActions(...).
Resume(c) ==
  /\ tcalls[c].pc = "awaiting"
  /\ Commit(c, tcalls[c].id, tcalls[c].obj, tcalls[c].event, tcalls[c].target,
            tcalls[c].threw)
  /\ UNCHANGED <<mInitialized, machines>>
  /\ UNCHANGED <<busVars, tokVars, authVars, loadVars>>

\* Array.prototype.slice(start) of an array of length n: a negative start
\* counts from the end and stops at index 0, a start past the end gives
\* the empty array. The number -0 is the number 0.
SliceFrom(arr, start) ==
  LET n == Len(arr)
      k == IF start < 0 THEN Max(n + start, 0)
           ELSE IF start < n THEN start ELSE n
  IN SubSeq(arr, k + 1, n)

\* getTransitionHistory(machineId, limit): history.slice(-limit) of
\* this.transitions.get(machineId) || []
DefaultLimit == 10
GetTransitionHistory(id, limit) == SliceFrom(transitions[id], -limit)

\* updateContext(machineId, contextUpdates)
UpdateContext(id, upd) ==
  /\ IsInitialized(mInitialized)
  /\ machines[id] # NoObj
  /\ objs' = [objs EXCEPT ![machines[id]].context = Merge(@, upd)]
  /\ UNCHANGED <<mInitialized, machines, states, transitions, tcalls,
                 lastResult>>
  /\ UNCHANGED <<busVars, tokVars, authVars, loadVars>>

\* removeMachine(machineId)
RemoveMachine(id) ==
  /\ IsInitialized(mInitialized)
  /\ machines[id] # NoObj
  /\ machines' = [machines EXCEPT ![id] = NoObj]
  /\ objs' = Collect(objs, machines', tcalls)
  /\ states' = [states EXCEPT ![id] = Absent]
  /\ transitions' = [transitions EXCEPT ![id] = <<>>]
  /\ UNCHANGED <<mInitialized, tcalls, lastResult>>
  /\ UNCHANGED <<busVars, tokVars, authVars, loadVars>>

\* ============================================================ Token Service

TokenIds == 1..Max(MaxTokens, MaxAuths)
Times == 0..MaxTime
\* The payload of a token: createToken(type, payload = {}, expiresIn) keeps
\* what it is given, null too; userId 0 and the identifier and method
\* "undefined" stand for a member the payload does not have.
NullPayload == [present |-> FALSE, userId |-> 0, identifier |-> "undefined",
                method |-> "undefined"]
EmptyPayload == [present |-> TRUE, userId |-> 0, identifier |-> "undefined",
                 method |-> "undefined"]
ForeignPayload == [present |-> TRUE, userId |-> 9, identifier |-> "bob",
                   method |-> "password"]
\* tokens.get(tokenId) of an id without a key
NoToken == [exists |-> FALSE, createdAt |-> 0, expiresAt |-> 0,
            valid |-> FALSE, payload |-> NullPayload]
NoTResult == [op |-> "none", id |-> 0, value |-> FALSE, found |-> FALSE, count |-> 0]

\* Date.now() > token.expiresAt
ExpiredFrom(t, expiresAt) == t >= expiresAt
Expired(t, expiresAt) == t > expiresAt

\* token.valid = false of validateToken
NotFlagged(tok) == tok
Flagged(tok) == [tok EXCEPT !.valid = FALSE]

\* token.valid = false of revokeToken
NotRevoked(tok) == tok
Revoked(tok) == [tok EXCEPT !.valid = FALSE]

\* validateToken(tokenId) at time t on the map m: the map it leaves and
\* the value it returns.
Validate(m, id, t) ==
  IF ~m[id].exists
  THEN [tokens |-> m, value |-> FALSE, expired |-> FALSE]
  ELSE IF Expired(t, m[id].expiresAt)
  THEN [tokens |-> [m EXCEPT ![id] = Flagged(m[id])], value |-> FALSE,
        expired |-> TRUE]
  ELSE [tokens |-> m, value |-> m[id].valid, expired |-> FALSE]

TokInit ==
  /\ tInitialized = FALSE
  /\ tokens = [id \in TokenIds |-> NoToken]
  /\ nextTokenId = 1
  /\ now = 0
  /\ tResult = NoTResult
  /\ expiredSeen = {}
  /\ revoked = {}

\* initialize()
TInitialize ==
  /\ IF AlreadyInitialized(tInitialized)
     THEN UNCHANGED <<tInitialized, tokens>>
     ELSE /\ tokens' = [id \in TokenIds |-> NoToken]
          /\ tInitialized' = TRUE
  /\ UNCHANGED <<nextTokenId, now, tResult, expiredSeen, revoked>>
  /\ UNCHANGED <<busVars, machVars, authVars, loadVars>>

\* Date.now() reports another time; the wall clock may be set back.
ClockReports(t) ==
  /\ t # now
  /\ now' = t
  /\ UNCHANGED <<tInitialized, tokens, nextTokenId, tResult, expiredSeen,
                 revoked>>
  /\ UNCHANGED <<busVars, machVars, authVars, loadVars>>

\* The token createToken(type, payload, expiresIn) stores at time t.
NewToken(t, expiresIn, payload) ==
  [exists |-> TRUE, createdAt |-> t, expiresAt |-> t + expiresIn,
   valid |-> TRUE, payload |-> payload]

\* _generateTokenId(): `tok_${Date.now()}_${Math.random()...}`.  The ids
\* it can return now: one it has not returned yet, or, when the random
\* part repeats, the id of a token made at the same Date.now().
GeneratedIds ==
  {nextTokenId} \cup {id \in TokenIds : tokens[id].exists
                                        /\ tokens[id].createdAt = now}

\* createToken(type, payload, expiresIn), with id what _generateTokenId
\* returns: this.tokens.set(tokenId, token) without a look at the map.
CreateToken(id, expiresIn, payload, maxTokens) ==
  /\ IsInitialized(tInitialized)
  /\ nextTokenId <= maxTokens
  /\ id \in GeneratedIds
  /\ tokens' = [tokens EXCEPT ![id] = NewToken(now, expiresIn, payload)]
  /\ nextTokenId' = nextTokenId + 1
  /\ tResult' = [op |-> "create", id |-> id, value |-> TRUE,
                 found |-> TRUE, count |-> 0]
  /\ UNCHANGED <<tInitialized, now, expiredSeen, revoked>>
  /\ UNCHANGED <<busVars, machVars, authVars, loadVars>>

\* validateToken(tokenId)
ValidateToken(id) ==
  /\ IsInitialized(tInitialized)
  /\ LET v == Validate(tokens, id, now)
     IN /\ tokens' = v.tokens
        /\ tResult' = [op |-> "validate", id |-> id, value |-> v.value,
                       found |-> tokens[id].exists, count |-> 0]
        /\ expiredSeen' = IF v.expired THEN expiredSeen \cup {id}
                          ELSE expiredSeen
  /\ UNCHANGED <<tInitialized, nextTokenId, now, revoked>>
  /\ UNCHANGED <<busVars, machVars, authVars, loadVars>>

\* getToken(tokenId): null for an unknown id, else the snapshot with
\* valid: this.validateToken(tokenId)
GetToken(id) ==
  /\ IsInitialized(tInitialized)
  /\ IF ~tokens[id].exists
     THEN /\ tResult' = [op |-> "get", id |-> id, value |-> FALSE,
                         found |-> FALSE, count |-> 0]
          /\ UNCHANGED <<tokens, expiredSeen>>
     ELSE LET v == Validate(tokens, id, now)
          IN /\ tokens' = v.tokens
             /\ tResult' = [op |-> "get", id |-> id, value |-> v.value,
                            found |-> TRUE, count |-> 0]
             /\ expiredSeen' = IF v.expired THEN expiredSeen \cup {id}
                               ELSE expiredSeen
  /\ UNCHANGED <<tInitialized, nextTokenId, now, revoked>>
  /\ UNCHANGED <<busVars, machVars, authVars, loadVars>>

\* revokeToken(tokenId)
RevokeToken(id) ==
  /\ IsInitialized(tInitialized)
  /\ IF ~tokens[id].exists
     THEN /\ tResult' = [op |-> "revoke", id |-> id, value |-> FALSE,
                         found |-> FALSE, count |-> 0]
          /\ UNCHANGED <<tokens, revoked>>
     ELSE /\ tokens' = [tokens EXCEPT ![id] = Revoked(tokens[id])]
          /\ tResult' = [op |-> "revoke", id |-> id, value |-> TRUE,
                         found |-> TRUE, count |-> 0]
          /\ revoked' = revoked \cup {id}
  /\ UNCHANGED <<tInitialized, nextTokenId, now, expiredSeen>>
  /\ UNCHANGED <<busVars, machVars, authVars, loadVars>>

\* if (now > token.expiresAt) this.tokens.delete(tokenId) of the sweep
SweptOrInvalid(tok, t) == tok.exists /\ (t > tok.expiresAt \/ ~tok.valid)
Swept(tok, t) == tok.exists /\ t > tok.expiresAt

\* cleanupExpiredTokens(): const now = Date.now() once, then the loop over
\* the entries of the map, which visits every entry also while deleting.
CleanupExpiredTokens ==
  /\ IsInitialized(tInitialized)
  /\ tokens' = [id \in TokenIds |->
                  IF Swept(tokens[id], now) THEN NoToken ELSE tokens[id]]
  /\ tResult' = [op |-> "cleanup", id |-> 0, value |-> FALSE,
                 found |-> FALSE,
                 count |-> Cardinality({id \in TokenIds :
                                         Swept(tokens[id], now)})]
  /\ UNCHANGED <<tInitialized, nextTokenId, now, expiredSeen, revoked>>
  /\ UNCHANGED <<busVars, machVars, authVars, loadVars>>

\* ============================================================= Auth Service

AuthCalls == 1..Max(MaxAuths, OneAuth)
SessionTtl == 86400000         \* expiresIn of the session token
MinWalletLength == 32
MinPasswordLength == 8
TokPrefixLength == 4           \* 'tok_'.length

\* A credential is a string; the checks read its length and whether it
\* begins with 'tok_', so a credential is modelled by these two.
CredentialLengths ==
  {0, TokPrefixLength, MinPasswordLength - 1, MinPasswordLength,
   MinWalletLength - 1, MinWalletLength}
Credentials ==
  {cr \in [length : CredentialLengths, tok : BOOLEAN] :
     cr.tok => cr.length >= TokPrefixLength}
NoCredential == [length |-> 0, tok |-> FALSE]
ShortPassword == [length |-> MinPasswordLength - 1, tok |-> FALSE]
LongPassword == [length |-> MinPasswordLength, tok |-> FALSE]
Identifiers == {"", "alice"}
Methods == {"password", "wallet", "token", "oauth"}

\* credential.length >= 32 of case 'wallet'
WalletShapeOfPassword(cr) == cr.length >= MinPasswordLength
WalletShape(cr) == cr.length >= MinWalletLength

\* _validateCredentials(identifier, credential, method): the value its
\* promise resolves to.
ValidateCredentials(identifier, cr, method) ==
  IF identifier = "" \/ cr.length = 0
  THEN FALSE
  ELSE CASE method = "wallet" -> WalletShape(cr)
         [] method = "token" -> cr.tok
         [] OTHER -> cr.length >= MinPasswordLength

\* currentUser: null, an object made by authenticate (obj numbers the
\* objects, so that === is equality of records), or the object made by
\* _restoreSession.
NoUser == [kind |-> "null", obj |-> 0, id |-> 0, identifier |-> "undefined",
           authMethod |-> "undefined"]
MadeUser(n, identifier, method) ==
  [kind |-> "made", obj |-> n, id |-> n, identifier |-> identifier,
   authMethod |-> method]
RestoredUserWithoutMethod(payload) ==
  [kind |-> "restored", obj |-> 0, id |-> payload.userId,
   identifier |-> payload.identifier, authMethod |-> "undefined"]
RestoredUser(payload) ==
  [kind |-> "restored", obj |-> 0, id |-> payload.userId,
   identifier |-> payload.identifier, authMethod |-> payload.method]
SessionPayload(user) ==
  [present |-> TRUE, userId |-> user.id, identifier |-> user.identifier,
   method |-> user.authMethod]

NoSession == [exists |-> FALSE, user |-> NoUser]
\* this.sessions.set(sessionToken.id, {user, tokenId, createdAt}): the
\* record holds the user object itself.
SessionOfCopy(user) == [exists |-> TRUE, user |-> [user EXCEPT !.obj = 0]]
SessionOf(user) == [exists |-> TRUE, user |-> user]
NoAResult == [op |-> "none", id |-> 0, value |-> FALSE]
NothingCompleted == [op |-> "none", id |-> 0]
NoRaise == [component |-> "none", op |-> "none"]
IdleAuth == [pc |-> "idle", identifier |-> "", credential |-> NoCredential,
             method |-> "", success |-> FALSE, error |-> "",
             user |-> NoUser, tokenId |-> 0]
Failed(call, error) ==
  [call EXCEPT !.pc = "done", !.success = FALSE, !.error = error]

\* _persistSession(tokenId) and _clearPersistedSession(): the item they
\* leave; without a localStorage they do nothing.
PersistSessionOnce(item, tokenId) ==
  IF hasStorage /\ item = 0 THEN tokenId ELSE item
PersistSession(item, tokenId) == IF hasStorage THEN tokenId ELSE item
ClearPersistedSession(item) == IF hasStorage THEN 0 ELSE item

AuthInit ==
  /\ aInitialized = FALSE
  /\ currentUser = NoUser
  /\ sessions = [id \in TokenIds |-> NoSession]
  /\ hasStorage = TRUE
  /\ slot = 0
  /\ acalls = [c \in AuthCalls |-> IdleAuth]
  /\ nextUserId = 1
  /\ aResult = NoAResult
  /\ loggedOut = {}
  /\ completed = NothingCompleted
  /\ notInit = NoRaise

\* The environments the service is constructed in: with or without a
\* localStorage, and with whatever an earlier run left in the item.
AuthInitIn(slots) ==
  /\ aInitialized = FALSE
  /\ currentUser = NoUser
  /\ sessions = [id \in TokenIds |-> NoSession]
  /\ hasStorage \in BOOLEAN
  /\ slot \in slots
  /\ ~hasStorage => slot = 0
  /\ acalls = [c \in AuthCalls |-> IdleAuth]
  /\ nextUserId = 1
  /\ aResult = NoAResult
  /\ loggedOut = {}
  /\ completed = NothingCompleted
  /\ notInit = NoRaise

\* _restoreSession(): the current user and the token map it leaves.  A
\* validateToken that raises (token service not initialized) is caught.
RestoreSession ==
  IF hasStorage /\ slot # 0 /\ tInitialized
  THEN LET v == Validate(tokens, slot, now)
       IN [tokens |-> v.tokens, expired |-> v.expired,
           user |-> IF v.value /\ tokens[slot].payload.present
                    THEN RestoredUser(tokens[slot].payload)
                    ELSE currentUser]
  ELSE [tokens |-> tokens, expired |-> FALSE, user |-> currentUser]

\* initialize(tokenService): the run to `await this._restoreSession()`,
\* whose promise is already settled, and the rest.
AInitialize ==
  /\ IF AlreadyInitialized(aInitialized)
     THEN UNCHANGED <<aInitialized, currentUser, tokens, expiredSeen>>
     ELSE LET r == RestoreSession
          IN /\ tokens' = r.tokens
             /\ expiredSeen' = IF r.expired THEN expiredSeen \cup {slot}
                               ELSE expiredSeen
             /\ currentUser' = r.user
             /\ aInitialized' = TRUE
  /\ aResult' = [op |-> IF AlreadyInitialized(aInitialized)
                         THEN "initialize again" ELSE "initialize",
                 id |-> 0, value |-> TRUE]
  /\ UNCHANGED <<sessions, hasStorage, slot, acalls, nextUserId, loggedOut,
                 completed, notInit>>
  /\ UNCHANGED <<tInitialized, nextTokenId, now, tResult, revoked>>
  /\ UNCHANGED <<busVars, machVars, loadVars>>

\* authenticate(identifier, credential, method) up to the timer of
\* _validateCredentials; with an empty identifier or credential there is
\* no timer and the call settles with 'Invalid credentials'.
\* this.currentUser when createToken raises with the user object made:
\* the assignment of the made user (line 88) comes after createToken.
UserAssignedFirst(cur, made) == made
UserAtRaise(cur, made) == cur

Authenticate(c, identifier, cr, method) ==
  /\ IsInitialized(aInitialized)
  /\ acalls[c].pc = "idle"
  /\ \A d \in AuthCalls : d < c => acalls[d].pc # "idle"
  /\ LET call == [IdleAuth EXCEPT !.identifier = identifier,
                                  !.credential = cr, !.method = method]
     IN acalls' = [acalls EXCEPT ![c] =
                     IF identifier = "" \/ cr.length = 0
                     THEN Failed(call, "Invalid credentials")
                     ELSE [call EXCEPT !.pc = "waiting"]]
  /\ UNCHANGED <<aInitialized, currentUser, sessions, hasStorage, slot,
                 nextUserId, aResult, loggedOut, completed, notInit>>
  /\ UNCHANGED <<busVars, machVars, tokVars, loadVars>>

\* The timer of _validateCredentials has fired: the shape check and the
\* rest of authenticate.  _persistSession runs to its end before the await
\* on it, whose promise is already settled.
AuthResume(c) ==
  /\ acalls[c].pc = "waiting"
  /\ nextTokenId \in TokenIds
  /\ LET call == acalls[c]
         user == MadeUser(nextUserId, call.identifier, call.method)
     IN IF ~ValidateCredentials(call.identifier, call.credential, call.method)
        THEN /\ acalls' = [acalls EXCEPT ![c] =
                             Failed(call, "Invalid credentials")]
             /\ UNCHANGED <<currentUser, sessions, slot, nextUserId,
                            completed, tokens, nextTokenId>>
        ELSE IF ~tInitialized
        THEN \* createToken raises, the catch of authenticate returns
             /\ acalls' = [acalls EXCEPT ![c] =
                             Failed(call, "Not initialized")]
             /\ nextUserId' = nextUserId + 1
             /\ currentUser' = UserAtRaise(currentUser, user)
             /\ UNCHANGED <<sessions, slot, completed, tokens, nextTokenId>>
        ELSE /\ tokens' = [tokens EXCEPT ![nextTokenId] =
                             NewToken(now, SessionTtl, SessionPayload(user))]
             /\ nextTokenId' = nextTokenId + 1
             /\ nextUserId' = nextUserId + 1
             /\ sessions' = [sessions EXCEPT ![nextTokenId] =
                               SessionOf(user)]
             /\ currentUser' = user
             /\ slot' = PersistSession(slot, nextTokenId)
             /\ acalls' = [acalls EXCEPT ![c] =
                             [call EXCEPT !.pc = "done", !.success = TRUE,
                                          !.user = user,
                                          !.tokenId = nextTokenId]]
             /\ completed' = [op |-> "authenticate", id |-> nextTokenId]
  /\ UNCHANGED <<aInitialized, hasStorage, aResult, loggedOut, notInit>>
  /\ UNCHANGED <<tInitialized, now, tResult, expiredSeen, revoked>>
  /\ UNCHANGED <<busVars, machVars, loadVars>>

\* validateSession(tokenId) at time t on the sessions ss and the token
\* map m: false without a Session record, else what validateToken says.
SessionCheckOfRecord(ss, m, t, id) ==
  [tokens |-> m, value |-> ss[id].exists, expired |-> FALSE]
SessionCheck(ss, m, t, id) ==
  IF ~ss[id].exists
  THEN [tokens |-> m, value |-> FALSE, expired |-> FALSE]
  ELSE Validate(m, id, t)

\* validateSession(tokenId)
ValidateSession(id) ==
  /\ IsInitialized(aInitialized)
  /\ LET v == SessionCheck(sessions, tokens, now, id)
     IN /\ tokens' = v.tokens
        /\ expiredSeen' = IF v.expired THEN expiredSeen \cup {id}
                          ELSE expiredSeen
        /\ aResult' = [op |-> "validateSession", id |-> id,
                       value |-> v.value]
  /\ UNCHANGED <<aInitialized, currentUser, sessions, hasStorage, slot,
                 acalls, nextUserId, loggedOut, completed, notInit>>
  /\ UNCHANGED <<tInitialized, nextTokenId, now, tResult, revoked>>
  /\ UNCHANGED <<busVars, machVars, loadVars>>

\* session.user === this.currentUser of logout
AnySession(id) == sessions[id].exists
OwnSession(id) == sessions[id].exists /\ sessions[id].user = currentUser

\* logout(): the loop over the sessions, currentUser = null and
\* _clearPersistedSession, which runs to its end before the await on it.
Logout ==
  /\ IsInitialized(aInitialized)
  /\ LET own == {id \in TokenIds : OwnSession(id)}
     IN /\ tokens' = [id \in TokenIds |->
                        IF id \in own /\ tokens[id].exists
                        THEN Revoked(tokens[id]) ELSE tokens[id]]
        /\ revoked' = revoked \cup {id \in own : tokens[id].exists}
        /\ sessions' = [id \in TokenIds |->
                          IF id \in own THEN NoSession ELSE sessions[id]]
        /\ loggedOut' = loggedOut \cup own
  /\ currentUser' = NoUser
  /\ slot' = ClearPersistedSession(slot)
  /\ completed' = [op |-> "logout", id |-> 0]
  /\ aResult' = [op |-> "logout", id |-> 0, value |-> TRUE]
  /\ UNCHANGED <<aInitialized, hasStorage, acalls, nextUserId, notInit>>
  /\ UNCHANGED <<tInitialized, nextTokenId, now, tResult, expiredSeen>>
  /\ UNCHANGED <<busVars, machVars, loadVars>>

\* ================================================== calls before initialize

\* The operations of each component that begin with the initialized check.
\* transition is Transition above, which records the raise in its call.
GuardedOps ==
  [bus |-> {"on", "off", "emit", "getListeners", "clearListeners"},
   machines |-> {"registerMachine", "getMachine", "getCurrentState",
                 "updateContext", "getContext", "getTransitionHistory",
                 "removeMachine"},
   tokens |-> {"createToken", "validateToken", "getToken", "revokeToken",
               "cleanupExpiredTokens"},
   auth |-> {"authenticate", "validateSession", "getCurrentUser", "logout"}]
Components == DOMAIN GuardedOps
InitializedOf(component) ==
  CASE component = "bus" -> initialized
    [] component = "machines" -> mInitialized
    [] component = "tokens" -> tInitialized
    [] component = "auth" -> aInitialized

\* An operation called while its component is not initialized: the check
\* at its head raises 'Not initialized' before anything is read or written.
RaiseNotInitialized(component, op) ==
  /\ ~IsInitialized(InitializedOf(component))
  /\ notInit' = [component |-> component, op |-> op]
  /\ UNCHANGED <<aInitialized, currentUser, sessions, hasStorage, slot,
                 acalls, nextUserId, aResult, loggedOut, completed>>
  /\ UNCHANGED <<busVars, machVars, tokVars, loadVars>>

\* ================================================================= Loader

\* The services in the order PewpiShared.initialize loads them.
ServiceOrder == <<"tokenService", "authService", "walletUnified",
                  "integrationListener", "machinesAdapter", "uiShim">>
ServiceNames == {ServiceOrder[k] : k \in DOMAIN ServiceOrder}
\* loadService(name, path) returns what the global scope holds under the
\* name (or what require returns), or null. The loader awaits the
\* initialize of what it found: the promise resolves, or it rejects (an
\* initialize that raises, or a member of the name that is no function).
Kinds == {"null", "resolves", "rejects"}
AllResolve == [name \in ServiceNames |-> "resolves"]
InitCalls == 1..MaxInits
IdleInit == [pc |-> "idle", at |-> 0, value |-> FALSE]
Settled(value) == [pc |-> "settled", at |-> 0, value |-> value]

LoadInitIn(kinds) ==
  /\ pInitialized = FALSE
  /\ pInitializing = FALSE
  /\ services \in kinds
  /\ started = [name \in ServiceNames |-> 0]
  /\ icalls = [c \in InitCalls |-> IdleInit]
LoadInit == LoadInitIn({AllResolve})

\* The conditions of lines 627, 635, 643, 651, 659 and 667: the service was
\* found, and so was the one handed to its initialize.
Initializes(k) ==
  /\ services[ServiceOrder[k]] # "null"
  /\ ServiceOrder[k] = "authService" => services["tokenService"] # "null"
  /\ ServiceOrder[k] = "walletUnified" => services["authService"] # "null"
\* The first service from position k on whose initialize the loader calls
\* and awaits; past the last position when there is none.
RECURSIVE NextAwait(_)
NextAwait(k) ==
  IF k > Len(ServiceOrder) \/ Initializes(k) THEN k ELSE NextAwait(k + 1)

\* The try block of call c from position k up to its next await: the
\* initialize of a service, or, all services done, the flags are set and
\* the 'pewpi-shared:initialized' event is emitted when there is a bus.
RunFrom(c, k) ==
  LET n == NextAwait(k)
  IN IF n <= Len(ServiceOrder)
     THEN /\ started' = [started EXCEPT ![ServiceOrder[n]] = @ + 1]
          /\ icalls' = [icalls EXCEPT ![c] = [IdleInit EXCEPT
                                                !.pc = "service", !.at = n]]
          /\ pInitializing' = TRUE
          /\ UNCHANGED pInitialized
     ELSE /\ pInitialized' = TRUE
          /\ pInitializing' = FALSE
          /\ icalls' = [icalls EXCEPT ![c] =
                          IF services["integrationListener"] # "null"
                          THEN [IdleInit EXCEPT !.pc = "emit"]
                          ELSE Settled(TRUE)]
          /\ UNCHANGED started

\* PewpiShared.initialize() by call c, up to its first await or its return.
PInitialize(c) ==
  /\ icalls[c].pc = "idle"
  /\ \A d \in InitCalls : d < c => icalls[d].pc # "idle"
  /\ IF pInitialized
     THEN /\ icalls' = [icalls EXCEPT ![c] = Settled(TRUE)]
          /\ UNCHANGED <<pInitialized, pInitializing, started>>
     ELSE IF pInitializing
     THEN /\ icalls' = [icalls EXCEPT ![c] = [IdleInit EXCEPT !.pc = "poll"]]
          /\ UNCHANGED <<pInitialized, pInitializing, started>>
     ELSE RunFrom(c, 1)
  /\ UNCHANGED services
  /\ UNCHANGED <<busVars, machVars, tokVars, authVars>>

\* The initialize that call c awaits has settled: on a rejection the catch
\* clears `initializing` and the call returns false; else the try block
\* goes on.
ServiceSettles(c) ==
  /\ icalls[c].pc = "service"
  /\ IF services[ServiceOrder[icalls[c].at]] = "rejects"
     THEN /\ pInitializing' = FALSE
          /\ icalls' = [icalls EXCEPT ![c] = Settled(FALSE)]
          /\ UNCHANGED <<pInitialized, started>>
     ELSE RunFrom(c, icalls[c].at + 1)
  /\ UNCHANGED services
  /\ UNCHANGED <<busVars, machVars, tokVars, authVars>>

\* The emit that call c awaits has settled: the call returns true.
EmitSettles(c) ==
  /\ icalls[c].pc = "emit"
  /\ icalls' = [icalls EXCEPT ![c] = Settled(TRUE)]
  /\ UNCHANGED <<pInitialized, pInitializing, services, started>>
  /\ UNCHANGED <<busVars, machVars, tokVars, authVars>>

\* A tick of the interval of call c (every 100 ms) that finds
\* `initialized` set: the interval is cleared and the promise resolved with
\* true.  A tick that finds it clear changes nothing.
Poll(c) ==
  /\ icalls[c].pc = "poll"
  /\ pInitialized
  /\ icalls' = [icalls EXCEPT ![c] = Settled(TRUE)]
  /\ UNCHANGED <<pInitialized, pInitializing, services, started>>
  /\ UNCHANGED <<busVars, machVars, tokVars, authVars>>

\* ========================================================== specifications

vars == <<busVars, machVars, tokVars, authVars, loadVars>>

Init == BusInit /\ MachInit /\ TokInit /\ AuthInit /\ LoadInit

MachineNext ==
  \/ MInitialize
  \/ \E id \in MachineIds, config \in ConfigNames, init \in InitialStates,
        ctx \in InitialContexts : RegisterMachine(id, config, init, ctx)
  \/ \E c \in 1..MaxTransitions, id \in MachineIds, ev \in Events :
       Transition(c, id, ev)
  \/ \E c \in TCalls, out \in {"ok", "throw"} : ActionReturn(c, out)
  \/ \E c \in TCalls : Resume(c)
  \/ \E id \in MachineIds, upd \in ContextUpdates : UpdateContext(id, upd)
  \/ \E id \in MachineIds : RemoveMachine(id)

MachineSpec == Init /\ [][MachineNext]_vars

HistoryNext ==
  \/ MInitialize
  \/ \E id \in MachineIds, config \in ConfigNames, init \in InitialStates,
        ctx \in InitialContexts : RegisterMachine(id, config, init, ctx)
  \/ \E c \in 1..ManyTransitions, id \in MachineIds, ev \in Events :
       Transition(c, id, ev)
  \/ \E c \in TCalls, out \in {"ok", "throw"} : ActionReturn(c, out)
  \/ \E c \in TCalls : Resume(c)
  \/ \E id \in MachineIds, upd \in ContextUpdates : UpdateContext(id, upd)
  \/ \E id \in MachineIds : RemoveMachine(id)

HistorySpec == Init /\ [][HistoryNext]_vars

TokenNext ==
  \/ TInitialize
  \/ \E t \in Times : ClockReports(t)
  \/ \E expiresIn \in 0..MaxExpiresIn :
       CreateToken(nextTokenId, expiresIn, EmptyPayload, MaxTokens)
  \/ \E id \in 1..MaxTokens : ValidateToken(id)
  \/ \E id \in 1..MaxTokens : GetToken(id)
  \/ \E id \in 1..MaxTokens : RevokeToken(id)
  \/ CleanupExpiredTokens

TokenSpec == Init /\ [][TokenNext]_vars

\* TokenSpec and the specifications of the auth service take the ids
\* _generateTokenId returns as all different; TokenIdSpec takes every id
\* it can return.
TokenIdNext ==
  \/ TInitialize
  \/ \E t \in Times : ClockReports(t)
  \/ \E id \in 1..MaxTokens, expiresIn \in 0..MaxExpiresIn :
       CreateToken(id, expiresIn, EmptyPayload, MaxTokens)
  \/ \E id \in 1..MaxTokens : ValidateToken(id)
  \/ \E id \in 1..MaxTokens : RevokeToken(id)

TokenIdSpec == Init /\ [][TokenIdNext]_vars

EmitNext ==
  \/ Initialize
  \/ \E t \in EventTypes, once \in BOOLEAN, p \in 0..OnePriority :
       On(t, once, p, OneListener)
  \/ \E id \in ListenerIds : Off(id)
  \/ \E t \in EventTypes \cup {AllTypes} : ClearListeners(t)
  \/ \E f \in Calls, t \in EventTypes : Emit(f, t, MaxEmits)
  \/ \E f \in Calls, out \in {"ok", "throw"} : HandlerReturn(f, out)
  \/ \E f \in Calls : LoopStep(f)

EmitSpec == Init /\ [][EmitNext]_vars

ListenerNext ==
  \/ Initialize
  \/ \E t \in EventTypes, once \in BOOLEAN, p \in 0..FewPriority :
       On(t, once, p, FewListeners)
  \/ \E id \in ListenerIds : Off(id)
  \/ \E t \in EventTypes \cup {AllTypes} : ClearListeners(t)
  \/ \E f \in Calls, t \in EventTypes : Emit(f, t, FewEmits)
  \/ \E f \in Calls, out \in {"ok", "throw"} : HandlerReturn(f, out)
  \/ \E f \in Calls : LoopStep(f)

ListenerSpec == Init /\ [][ListenerNext]_vars

\* ListenerSpec with the scheduling the drain relies on: a handler that
\* was started settles, and the continuation of an await whose promise has
\* settled is run.
DrainSpec ==
  /\ Init /\ [][ListenerNext]_vars
  /\ WF_vars(\E f \in Calls, out \in {"ok", "throw"} : HandlerReturn(f, out))
  /\ WF_vars(\E f \in Calls : LoopStep(f))

OrderNext ==
  \/ Initialize
  \/ \E t \in EventTypes, once \in BOOLEAN, p \in 0..MaxPriority :
       On(t, once, p, MaxListeners)
  \/ \E id \in ListenerIds : Off(id)
  \/ \E t \in EventTypes \cup {AllTypes} : ClearListeners(t)
  \/ \E f \in Calls, t \in EventTypes : Emit(f, t, OneEmit)
  \/ \E f \in Calls, out \in {"ok", "throw"} : HandlerReturn(f, out)
  \/ \E f \in Calls : LoopStep(f)

OrderSpec == Init /\ [][OrderNext]_vars

\* Date.now() in AuthSpec: a session token made at 0 has expired at
\* SessionTtl + 1, one made later has not.
AuthTimes == {0, 1, SessionTtl + 1}

AuthNext ==
  \/ TInitialize
  \/ AInitialize
  \/ \E t \in AuthTimes : ClockReports(t)
  \/ \E c \in 1..MaxAuths, cr \in {ShortPassword, LongPassword} :
       Authenticate(c, "alice", cr, "password")
  \/ \E c \in AuthCalls : AuthResume(c)
  \/ \E id \in TokenIds : ValidateSession(id)
  \/ Logout
  \/ \E id \in TokenIds : RevokeToken(id)
  \/ CleanupExpiredTokens

\* With or without a localStorage, the item empty.
InitEmptyItem ==
  BusInit /\ MachInit /\ TokInit /\ AuthInitIn({0}) /\ LoadInit

AuthSpec == InitEmptyItem /\ [][AuthNext]_vars

RestoreNext ==
  \/ TInitialize
  \/ AInitialize
  \/ \E t \in Times : ClockReports(t)
  \/ \E expiresIn \in 0..MaxExpiresIn,
        payload \in {EmptyPayload, NullPayload, ForeignPayload} :
       CreateToken(nextTokenId, expiresIn, payload, OneToken)
  \/ \E id \in TokenIds : RevokeToken(id)
  \/ CleanupExpiredTokens

\* With or without a localStorage, the item empty or holding an id.
InitAnyItem ==
  BusInit /\ MachInit /\ TokInit /\ AuthInitIn({0} \cup TokenIds) /\ LoadInit

RestoreSpec == InitAnyItem /\ [][RestoreNext]_vars

\* RestoreSpec with one authenticate call and logout: the current user that
\* logs out was restored by initialize or made by authenticate.
LogoutNext ==
  \/ RestoreNext
  \/ \E c \in 1..OneAuth : Authenticate(c, "alice", LongPassword, "password")
  \/ \E c \in AuthCalls : AuthResume(c)
  \/ Logout

LogoutSpec == InitAnyItem /\ [][LogoutNext]_vars

\* The loader with every combination of services found, missing, and
\* failing to initialize, and a few initialize calls.
InitAnyServices ==
  /\ BusInit /\ MachInit /\ TokInit /\ AuthInit
  /\ LoadInitIn([ServiceNames -> Kinds])

LoaderNext ==
  \/ \E c \in InitCalls : PInitialize(c)
  \/ \E c \in InitCalls : ServiceSettles(c)
  \/ \E c \in InitCalls : EmitSettles(c)
  \/ \E c \in InitCalls : Poll(c)

\* The scheduling the loader relies on: a promise it awaits settles, and
\* the interval of a waiting call keeps ticking.
LoaderSpec ==
  /\ InitAnyServices /\ [][LoaderNext]_vars
  /\ WF_vars(\E c \in InitCalls : ServiceSettles(c))
  /\ WF_vars(\E c \in InitCalls : EmitSettles(c))
  /\ WF_vars(\E c \in InitCalls : Poll(c))

\* The four components side by side, each with one call or two that
\* fill its state.
CoreNext ==
  \/ Initialize
  \/ MInitialize
  \/ TInitialize
  \/ AInitialize
  \/ \E component \in Components : \E op \in GuardedOps[component] :
       RaiseNotInitialized(component, op)
  \/ \E t \in EventTypes : On(t, FALSE, 0, OneListener)
  \/ RegisterMachine("m1", "flow", "idle", EmptyMap)
  \/ \E c \in 1..OneTransition : Transition(c, "m1", "START")
  \/ CreateToken(nextTokenId, 0, EmptyPayload, OneToken)
  \/ \E c \in 1..OneAuth : Authenticate(c, "alice", LongPassword, "password")
  \/ \E c \in AuthCalls : AuthResume(c)

CoreSpec == InitAnyItem /\ [][CoreNext]_vars

CredentialNext ==
  \/ TInitialize
  \/ AInitialize
  \/ \E c \in 1..OneAuth, identifier \in Identifiers, cr \in Credentials,
        method \in Methods : Authenticate(c, identifier, cr, method)
  \/ \E c \in AuthCalls : AuthResume(c)

CredentialSpec == Init /\ [][CredentialNext]_vars

\* ------------------------------------------------------ claims: the bus

Running == {f \in Calls : frames[f].pc = "handler"}
TraceIds(fr) == {fr.trace[k].id : k \in DOMAIN fr.trace}
Registered(id) == \E t \in EventTypes : HasId(listeners[t], id)

\* C1: at most one drain loop runs at a time: between the setting and the
\* clearing of the processing flag exactly one emit call is inside
\* _processQueue, and every other emit made meanwhile has only queued its
\* event and returned.
C1_OneDrainAtATime ==
  /\ Cardinality({f \in Calls : Draining(frames[f])}) <= 1
  /\ (\E f \in Calls : Draining(frames[f])) => processing

\* A handler is running for one call while another call has returned with
\* its event still in the queue.
C1_Witness ==
  \E f, g \in Calls :
    /\ frames[f].pc = "handler"
    /\ frames[g].pc = "returned"
    /\ \E i \in DOMAIN eventQueue : eventQueue[i].id = g

\* C2: events are dispatched in the order in which emit queued them, and
\* while a listener of an event runs, the dispatch of every event emitted
\* before it has finished.
C2_FifoAcrossEmits ==
  /\ order = [k \in 1..Len(order) |-> k]
  /\ \A f \in Running : \A e \in 1..(frames[f].cur - 1) : e \in dispatched

\* A listener of the second event runs, and that event was emitted while
\* the first was being dispatched.
C2_Witness ==
  \E f \in Running : frames[f].cur = 2 /\ emitted[2].during = {1}

\* C3: an event emitted while a handler runs for event E is dequeued only
\* after the dispatch of E has finished and after every event that was in
\* the queue when it was emitted.
C3_ReentrantEmitIsQueued ==
  \A k \in DOMAIN order :
    /\ emitted[order[k]].during \subseteq dispatched
    /\ emitted[order[k]].ahead \subseteq dispatched

\* A listener runs for an event that was emitted during a handler of an
\* earlier event, with another event queued ahead of it.
C3_Witness ==
  \E f \in Running :
    /\ emitted[frames[f].cur].during # {}
    /\ emitted[frames[f].cur].ahead # {}

\* C4: every emit call returns only after its own event and every event
\* queued ahead of it have been dispatched to all listeners.
C4_EmitReturnsAfterDispatch ==
  \A f \in Calls : frames[f].pc = "returned" => (1..f) \subseteq dispatched

\* C5: a once listener whose handler raised is no longer registered once
\* the dispatch of that event has finished.
C5_OnceRemovedAfterRaise ==
  \A t \in EventTypes : \A i \in DOMAIN listeners[t] :
    (listeners[t][i].once /\ listeners[t][i].id \in threw)
      => \E f \in Running : listeners[t][i].id \in TraceIds(frames[f])

\* C6: the handler of a once listener that has not raised is started at
\* most once.
C6_OnceInvokedOnce ==
  \A f \in Running :
    (frames[f].lst.once /\ frames[f].lst.id \notin threw)
      => invocations[frames[f].lst.id] <= 1

C8_ListenersSorted ==
  \A t \in EventTypes : \A i, j \in DOMAIN listeners[t] :
    i < j => \/ listeners[t][i].priority > listeners[t][j].priority
             \/ /\ listeners[t][i].priority = listeners[t][j].priority
                /\ listeners[t][i].id < listeners[t][j].id

\* Three listeners of one type stand in the reverse of the order in which
\* they were registered.
C8_Witness ==
  \E t \in EventTypes :
    /\ Len(listeners[t]) = 3
    /\ listeners[t][1].id > listeners[t][2].id
    /\ listeners[t][2].id > listeners[t][3].id

\* C9: the handlers of one dispatched event start in descending priority
\* order, ties in registration order, each after the one before it has
\* settled.
C9_DispatchInPriorityOrder ==
  \A f \in Running : \A i, j \in DOMAIN frames[f].trace :
    i < j => /\ frames[f].trace[i].out # "run"
             /\ \/ frames[f].trace[i].priority > frames[f].trace[j].priority
                \/ /\ frames[f].trace[i].priority = frames[f].trace[j].priority
                   /\ frames[f].trace[i].id <= frames[f].trace[j].id

\* C33: in the dispatch of one event every listener that is registered for
\* the type when the dispatch starts and is not removed during it is invoked
\* exactly once, also when a handler calls on or off meanwhile.  The
\* formula is the half "never twice": a listener that is still registered
\* has at most one invocation in the dispatch that is running.
C33_InvokedExactlyOnce ==
  \A f \in Running : \A i, j \in DOMAIN frames[f].trace :
    (i < j /\ Registered(frames[f].trace[i].id))
      => frames[f].trace[i].id # frames[f].trace[j].id

\* C34: a listener that off or clearListeners has removed is not invoked
\* again: whenever a handler is started, its listener is in the listener
\* map at that moment (nothing puts a removed listener back).
C34_RemovedIsNotInvoked ==
  [][\A id \in ListenerIds :
       invocations'[id] > invocations[id] => Registered(id)
    ]_vars

InMap == {id \in MachineIds : machines[id] # NoObj}
KeysOf(config) == DOMAIN StatesOf(config)
\* C10: the currentState of every registered machine whose initialState is
\* a key of its states is a key of its states.
C10_CurrentStateIsKey ==
  \A id \in InMap :
    LET m == objs[machines[id]]
    IN m.initialState \in KeysOf(m.config) => m.currentState \in KeysOf(m.config)

\* The own keys of the table of the current state of machine id.
OwnEvents(id) ==
  LET m == objs[machines[id]]
  IN IF m.currentState \in KeysOf(m.config)
     THEN DOMAIN StatesOf(m.config)[m.currentState] ELSE {}

\* C11: a transition call on a registered machine whose current state has
\* no table entry for the event settles at once with {success: false,
\* currentState: the current state, error: 'Invalid transition'}, starts no
\* action, and leaves the machine object, the current-state map and the
\* history as they were.
C11_InvalidTransitionChangesNothing ==
  [][\A c \in TCalls, id \in MachineIds, ev \in Events :
       ( /\ Transition(c, id, ev)
         /\ mInitialized /\ id \in InMap
         /\ objs[machines[id]].currentState \in KeysOf(objs[machines[id]].config)
         /\ ev \notin OwnEvents(id) )
       => /\ tcalls'[c].pc = "done"
          /\ lastResult' = [NoResult EXCEPT
                              !.call = c, !.how = "returned", !.id = id,
                              !.currentState = objs[machines[id]].currentState,
                              !.error = "Invalid transition"]
          /\ UNCHANGED <<objs, states, transitions>>]_vars

\* What the commit of call c on machine object o of id must come to.
Committed(c, id, o, ev, target) ==
  LET prev == objs[o].currentState
  IN /\ machines[id] = o => objs'[o].currentState = target
     /\ states'[id] = target
     /\ transitions'[id] = Append(transitions[id],
                                  [machineId |-> id, from |-> prev,
                                   to |-> target, event |-> ev])
     /\ lastResult'.call = c /\ lastResult'.how = "returned"
     /\ lastResult'.success /\ lastResult'.error = Undefined
     /\ lastResult'.previousState = prev
     /\ lastResult'.currentState = target
     /\ lastResult'.event = ev
     /\ tcalls'[c].pc = "done"

\* C12: a transition call whose current state has a table entry for the
\* event takes the entry's target (the string, or the target field of an
\* object entry); with actions it suspends holding that target, and when
\* it commits, at once or after its actions, it sets currentState to the
\* target, appends exactly one record {from: the state just before, to:
\* target, event} to the history of the id and returns {success: true,
\* previousState, currentState: target, event}.
C12_TransitionCommits ==
  [][ /\ \A c \in TCalls, id \in MachineIds, ev \in Events :
          ( /\ Transition(c, id, ev)
            /\ mInitialized /\ id \in InMap
            /\ ev \in OwnEvents(id) )
          => LET o == machines[id]
                 tr == StatesOf(objs[o].config)[objs[o].currentState][ev]
                 target == IF tr.isString THEN tr.name ELSE tr.target
             IN IF ~tr.isString /\ tr.hasActions
                THEN /\ tcalls'[c].pc \in {"action", "awaiting"}
                     /\ tcalls'[c].id = id /\ tcalls'[c].obj = o
                     /\ tcalls'[c].event = ev /\ tcalls'[c].target = target
                     /\ UNCHANGED <<objs, states, transitions, lastResult>>
                ELSE Committed(c, id, o, ev, target)
      /\ \A c \in TCalls :
          Resume(c) => Committed(c, tcalls[c].id, tcalls[c].obj,
                                 tcalls[c].event, tcalls[c].target)
    ]_vars

\* Two transitions of a registered machine have committed, the second one
\* through an object entry after its actions.
C12_Witness ==
  \E id \in InMap :
    /\ Len(transitions[id]) = 2
    /\ transitions[id][2].event = "STOP"
    /\ transitions[id][2].to = "idle"
    /\ objs[machines[id]].config = "acting"
    /\ objs[machines[id]].currentState = "idle"
    /\ lastResult.success /\ lastResult.event = "STOP"

\* The calls of transition that are suspended in _executeActions.
Acting == {c \in TCalls : tcalls[c].pc \in {"action", "awaiting"}}
\* The callables of an action list between index i and index j.
FnsBetween(actions, i, j) ==
  {n \in DOMAIN actions : i < n /\ n < j /\ actions[n] = "fn"}

C14_ActionFaultIsolated ==
  /\ [](lastResult.how = "raised"
          => lastResult.error \in {"Not initialized", "Machine not found",
                                    "Invalid state"})
  /\ [][ /\ \A c \in TCalls :
             ActionReturn(c, "throw")
             => /\ tcalls'[c].threw
                /\ UNCHANGED lastResult
                /\ IF FnsBetween(tcalls[c].actions, tcalls[c].k,
                                 Len(tcalls[c].actions) + 1) = {}
                   THEN tcalls'[c].pc = "awaiting"
                   ELSE /\ tcalls'[c].pc = "action"
                        /\ tcalls'[c].k > tcalls[c].k
                        /\ FnsBetween(tcalls[c].actions, tcalls[c].k,
                                      tcalls'[c].k) = {}
         /\ \A c \in TCalls :
             (Resume(c) /\ tcalls[c].threw)
             => /\ Committed(c, tcalls[c].id, tcalls[c].obj, tcalls[c].event,
                             tcalls[c].target)
                /\ lastResult'.threw
       ]_vars

\* A transition one of whose callables raised has committed: the machine
\* is in the target state, with the record in its history.
C14_Witness ==
  \E id \in InMap :
    /\ lastResult.id = id
    /\ lastResult.threw /\ lastResult.success
    /\ lastResult.event = "START"
    /\ objs[machines[id]].currentState = "running"
    /\ Len(transitions[id]) = 1
    /\ transitions[id][1].to = "running"

\* The limits asked of getTransitionHistory: 0..MaxLimit and the default.
Limits == (0..MaxLimit) \cup {DefaultLimit}
\* The last k records of a history.
LastRecords(history, k) == SubSeq(history, Len(history) - k + 1, Len(history))

\* C15: getTransitionHistory(id, limit) is the last min(limit, n) records
\* of the n records of the history of id, in the order of the history,
\* for every limit from 0 on.
C15_HistoryIsMostRecent ==
  \A id \in MachineIds, limit \in Limits :
    mInitialized =>
      LET n == Len(transitions[id])
      IN GetTransitionHistory(id, limit)
           = LastRecords(transitions[id], IF limit < n THEN limit ELSE n)

\* getCurrentState(machineId): machine ? machine.currentState : null
GetCurrentState(id) ==
  IF machines[id] = NoObj THEN "null" ELSE objs[machines[id]].currentState

\* C16: while an id has no machine (it was removed and not registered
\* again, or never registered), getCurrentState(id) is null and neither a
\* current-state entry nor a transition record exists for the id.
C16_HistoryDeletedWithMachine ==
  \A id \in MachineIds :
    machines[id] = NoObj
      => /\ GetCurrentState(id) = "null"
         /\ states[id] = Absent
         /\ transitions[id] = <<>>

\* C17: on the initialized adapter a transition call for an id without a
\* machine does not raise: it settles by returning a result with success
\* false.
C17_UnknownMachineIsReturned ==
  \A id \in MachineIds :
    (lastResult.id = id /\ lastResult.error = "Machine not found")
      => /\ lastResult.how = "returned"
         /\ ~lastResult.success

\* _getAvailableTransitions(machineId): Object.keys(stateConfig.on), or []
\* without a machine, a state config or an `on`.
GetAvailableTransitions(id) ==
  IF machines[id] = NoObj THEN {} ELSE OwnEvents(id)

\* Whether transition(id, ev), called now, comes to {success: true, ...}:
\* lines 98-123 let it pass.
WouldSucceed(id, ev) ==
  /\ IsInitialized(mInitialized)
  /\ machines[id] # NoObj
  /\ objs[machines[id]].currentState \in KeysOf(objs[machines[id]].config)
  /\ HasEntry(StatesOf(objs[machines[id]].config)[objs[machines[id]].currentState],
              ev)

\* C30: an event name is in getMachine(id).availableTransitions exactly
\* when a transition(id, event) call made next returns success: true.
C30_AvailableIffTransitionSucceeds ==
  \A id \in InMap, ev \in Events :
    mInitialized => (ev \in GetAvailableTransitions(id) <=> WouldSucceed(id, ev))

\* The record r is an entry of the table: states[r.from] has an own entry
\* for r.event and its target is r.to.
Legal(table, r) ==
  /\ r.from \in DOMAIN table
  /\ r.event \in DOMAIN table[r.from]
  /\ TargetOf(table[r.from][r.event]) = r.to

\* C32: every record {from, event, to} in the history of a registered
\* machine is an entry of the machine's table, also when transition calls
\* on the machine overlap at the await of an action.
C32_RecordsAreLegal ==
  \A id \in InMap :
    \A i \in 1..Len(transitions[id]) :
      Legal(StatesOf(objs[machines[id]].config), transitions[id][i])

\* C36: the history of every registered machine is a continuous chain: the
\* first record starts from the machine's initialState, every record ends
\* where the next one starts, and the last record ends in the machine's
\* currentState.
C36_HistoryIsChain ==
  \A id \in InMap :
    LET h == transitions[id]
        machine == objs[machines[id]]
    IN h # <<>> =>
         /\ h[1].from = machine.initialState
         /\ \A i \in 1..(Len(h) - 1) : h[i].to = h[i + 1].from
         /\ h[Len(h)].to = machine.currentState
         /\ h[Len(h)].to = states[id]

\* C37: when registerMachine(id, cfg) returns, the transition history of id
\* is empty, also when id had recorded transitions before the call.
C37_RegisterEmptiesHistory ==
  [][\A id \in MachineIds :
       (\E config \in ConfigNames, init \in InitialStates,
           ctx \in InitialContexts : RegisterMachine(id, config, init, ctx))
         => GetTransitionHistory(id, DefaultLimit)' = <<>>
    ]_vars

\* ------------------------------------------- claims: the token service

\* C18: validateToken(id) returns true exactly when a record for id is in
\* the store, its valid flag is true and the time is not past expiresAt
\* (so false for an unknown id), and the valid field of the snapshot that
\* getToken(id) returns is what validateToken(id) returns at that moment.
C18_ValidateIffValidAndUnexpired ==
  [][ /\ \A id \in TokenIds :
          ValidateToken(id)
          => tResult'.value = ( /\ tokens[id].exists
                                /\ tokens[id].valid
                                /\ now <= tokens[id].expiresAt )
      /\ \A id \in TokenIds :
          (GetToken(id) /\ tokens[id].exists)
          => /\ tResult'.found
             /\ tResult'.value = ( /\ tokens[id].valid
                                   /\ now <= tokens[id].expiresAt )
             /\ tResult'.value = Validate(tokens', id, now').value
    ]_vars

\* validateToken has returned true for a token at the very time of its
\* expiresAt, after the clock has moved.
C18_Witness ==
  /\ tResult.op = "validate"
  /\ tResult.value
  /\ now > 0
  /\ tokens[tResult.id].expiresAt = now

C21_CleanupSweepsExactlyExpired ==
  [][CleanupExpiredTokens
     => /\ \A id \in TokenIds :
             IF tokens[id].exists /\ now > tokens[id].expiresAt
             THEN ~tokens'[id].exists
             ELSE tokens'[id] = tokens[id]
        /\ tResult'.count = Cardinality({id \in TokenIds :
                              tokens[id].exists /\ now > tokens[id].expiresAt})
    ]_vars

\* A sweep has removed one record and has left a revoked record that is
\* not expired.
C21_Witness ==
  /\ tResult.op = "cleanup"
  /\ tResult.count = 1
  /\ \E id \in revoked :
       /\ tokens[id].exists
       /\ ~tokens[id].valid
       /\ now <= tokens[id].expiresAt


\* C31: createToken returns an id that is not a key of the token map, so
\* the call leaves every stored record as it was and the map has one
\* record more.
C31_CreateTokenIdIsFresh ==
  [][\A id \in TokenIds :
       (\E expiresIn \in 0..MaxExpiresIn :
           CreateToken(id, expiresIn, EmptyPayload, MaxTokens))
         => /\ ~tokens[id].exists
            /\ \A other \in TokenIds \ {id} : tokens'[other] = tokens[other]
            /\ Cardinality({k \in TokenIds : tokens'[k].exists})
                 = Cardinality({k \in TokenIds : tokens[k].exists}) + 1
    ]_vars

\* --------------------------------------------- claims: the auth service

\* What validateSession(id) returns when it is called in this state.
SessionValidIn(ss, m, t, id) == ss[id].exists /\ Validate(m, id, t).value
SessionValid(id) == SessionValidIn(sessions, tokens, now, id)

\* What getCurrentUser() returns when it is called in this state.
GetCurrentUser == currentUser

ShapePasses(call) ==
  /\ call.identifier # ""
  /\ call.credential.length > 0
  /\ CASE call.method = "wallet" -> call.credential.length >= 32
       [] call.method = "token" -> call.credential.tok
       [] OTHER -> call.credential.length >= 8

\* The authenticate call c settles in this step.
Settles(c) == acalls[c].pc # "done" /\ acalls'[c].pc = "done"

C24_SessionValidIffRecordAndToken ==
  [][\A id \in TokenIds :
       ValidateSession(id)
         => /\ aResult'.value
                 <=> /\ sessions[id].exists
                     /\ tokens[id].exists
                     /\ tokens[id].valid
                     /\ now <= tokens[id].expiresAt
            /\ sessions' = sessions
    ]_vars

C24_Witness ==
  \E id \in TokenIds :
    /\ aResult = [op |-> "validateSession", id |-> id, value |-> FALSE]
    /\ sessions[id].exists
    /\ ~tokens[id].exists

\* C25: logout revokes the token of, and removes, exactly the Session
\* records whose stored user is the current user object; every other
\* Session record stays and its token is as it was.
C25_LogoutRemovesOwnSessions ==
  [][Logout
       => \A id \in TokenIds :
            IF sessions[id].exists /\ sessions[id].user = currentUser
            THEN /\ ~sessions'[id].exists
                 /\ tokens[id].exists
                      => (tokens'[id].exists /\ ~tokens'[id].valid)
            ELSE /\ sessions'[id] = sessions[id]
                 /\ tokens'[id] = tokens[id]
    ]_vars

C25_Witness ==
  \E a, b \in AuthCalls :
    /\ acalls[a].success /\ acalls[b].success
    /\ SessionValid(acalls[a].tokenId)
    /\ acalls[b].tokenId \in loggedOut
    /\ ~tokens[acalls[b].tokenId].valid
    /\ aResult.op = "logout"

\* C26: with a localStorage, once an authenticate or a logout has settled,
\* the item 'pewpi_session' holds the token id of the successful
\* authenticate that settled last if no logout settled after it, and is
\* absent if a logout settled last; an authenticate that fails leaves the
\* item as it is.
C26_MirrorFollowsLastCall ==
  /\ [](hasStorage
          => /\ completed.op = "authenticate" => slot = completed.id
             /\ completed.op = "logout" => slot = 0)
  /\ [][\A c \in AuthCalls :
          (Settles(c) /\ ~acalls'[c].success) => slot' = slot
      ]_vars

C26_Witness ==
  /\ hasStorage
  /\ completed.op = "authenticate"
  /\ slot = completed.id
  /\ \E c \in AuthCalls :
       /\ acalls[c].success /\ acalls[c].tokenId # slot
       /\ acalls[c].tokenId \notin loggedOut

\* The token service validates the id the item holds.
MirrorValidates ==
  /\ hasStorage /\ slot # 0
  /\ IsInitialized(tInitialized)
  /\ tokens[slot].exists /\ tokens[slot].valid
  /\ now <= tokens[slot].expiresAt

\* C27 as stated: the first initialize makes the current user
\* {id: payload.userId, identifier: payload.identifier, authMethod:
\* payload.method} of the token whose id the item holds if the token
\* service validates that id, and leaves the current user null otherwise;
\* it returns true in every case.
C27_InitializeRestores ==
  [][(AInitialize /\ ~aInitialized)
       => /\ aInitialized' /\ aResult'.value
          /\ IF MirrorValidates
             THEN currentUser' =
                    [kind |-> "restored", obj |-> 0,
                     id |-> tokens[slot].payload.userId,
                     identifier |-> tokens[slot].payload.identifier,
                     authMethod |-> tokens[slot].payload.method]
             ELSE currentUser' = NoUser
    ]_vars

\* C27, amended: the current user is restored if the token service
\* validates the id the item holds and the token has a payload (createToken
\* was not given null); otherwise the current user stays null.
C27_InitializeRestoresFromPayload ==
  [][(AInitialize /\ ~aInitialized)
       => /\ aInitialized' /\ aResult'.value
          /\ IF MirrorValidates /\ tokens[slot].payload.present
             THEN currentUser' =
                    [kind |-> "restored", obj |-> 0,
                     id |-> tokens[slot].payload.userId,
                     identifier |-> tokens[slot].payload.identifier,
                     authMethod |-> tokens[slot].payload.method]
             ELSE currentUser' = NoUser
    ]_vars

C27_Witness ==
  /\ aInitialized
  /\ currentUser.kind = "restored"
  /\ currentUser.id = ForeignPayload.userId
  /\ currentUser.authMethod = ForeignPayload.method

\* C38: when logout() has returned true, the token id that the item held
\* before the call does not validate in the token service, whether the
\* current user that logs out was made by authenticate or restored by
\* initialize.
C38_LogoutInvalidatesMirroredToken ==
  [][(Logout /\ aResult'.value /\ currentUser # NoUser
        /\ hasStorage /\ slot # 0)
       => ~Validate(tokens', slot, now').value
    ]_vars

\* C39: a step of an authenticate call that does not end in success, up to
\* and including the one that returns {success: false} (credentials
\* rejected at once or after the timer, or createToken raising in a token
\* service that is not initialized), leaves the current user, the session
\* map, the token map and the item as they were, and the call returns: it
\* is done with an error message and nothing is raised.
C39_FailedAuthenticateChangesNothing ==
  [][\A c \in AuthCalls :
       (acalls'[c] # acalls[c] /\ ~acalls'[c].success)
         => /\ UNCHANGED <<currentUser, sessions, tokens, slot>>
            /\ notInit' = notInit
            /\ Settles(c) => acalls'[c].error
                               \in {"Invalid credentials", "Not initialized"}
    ]_vars

\* A call has returned {success: false} while a user is logged in whose
\* session is mirrored, and that session is still valid.
C39_Witness ==
  \E c \in AuthCalls :
    /\ acalls[c].pc = "done" /\ ~acalls[c].success
    /\ currentUser # NoUser
    /\ hasStorage /\ slot # 0
    /\ SessionValid(slot)

\* ------------------------------------------ claims: the four components

\* C28: in the token service, the bus, the adapter and the auth service,
\* an operation other than initialize and getStatus that is called before
\* initialize has succeeded raises 'Not initialized' and leaves the state
\* of its component as it was: while a component is not initialized no
\* step changes its state, and each such call ends in the raise.
C28_NotInitializedRaises ==
  [][/\ (~initialized /\ ~initialized')
          => UNCHANGED <<listeners, eventQueue, processing, frames,
                         nextListenerId, nextEventId>>
     /\ (~mInitialized /\ ~mInitialized')
          => UNCHANGED <<objs, machines, states, transitions>>
     /\ (~tInitialized /\ ~tInitialized')
          => UNCHANGED <<tokens, nextTokenId>>
     /\ (~aInitialized /\ ~aInitialized')
          => UNCHANGED <<currentUser, sessions, slot, acalls, nextUserId>>
     /\ \A c \in TCalls, id \in MachineIds, ev \in Events :
          (Transition(c, id, ev) /\ ~mInitialized)
            => /\ lastResult'.how = "raised"
               /\ lastResult'.error = "Not initialized"
     /\ \A component \in Components : \A op \in GuardedOps[component] :
          RaiseNotInitialized(component, op)
            => /\ ~InitializedOf(component)
               /\ notInit' = [component |-> component, op |-> op]
    ]_vars

C28_Witness ==
  /\ notInit = [component |-> "auth", op |-> "logout"]
  /\ ~aInitialized
  /\ lastResult.error = "Not initialized"
  /\ tInitialized /\ \E id \in TokenIds : tokens[id].exists
  /\ initialized /\ \E t \in EventTypes : listeners[t] # <<>>

\* C29: a second or later initialize of the bus, the adapter, the token
\* service or the auth service changes nothing of its component (the auth
\* service's is recorded to return true).
C29_InitializeIsIdempotent ==
  [][/\ (Initialize /\ initialized) => UNCHANGED busVars
     /\ (MInitialize /\ mInitialized) => UNCHANGED machVars
     /\ (TInitialize /\ tInitialized) => UNCHANGED tokVars
     /\ (AInitialize /\ aInitialized)
          => /\ UNCHANGED <<aInitialized, currentUser, sessions, slot,
                            acalls, nextUserId, tokVars>>
             /\ aResult'.value
    ]_vars

C29_Witness ==
  /\ aResult.op = "initialize again"
  /\ currentUser.kind = "made"
  /\ \E id \in TokenIds : sessions[id].exists /\ tokens[id].exists
  /\ \E t \in EventTypes : listeners[t] # <<>>
  /\ machines["m1"] # NoObj

\* ------------------------------------------------------ claims: the loader

\* C40: a PewpiShared.initialize call made while an initialization is in
\* progress starts the initialize of no service, and every call that was
\* made settles, whatever the initialization in progress comes to.
C40_EveryInitializeSettles ==
  /\ [][\A c \in InitCalls :
          (PInitialize(c) /\ pInitializing) => started' = started]_vars
  /\ \A c \in InitCalls :
       (icalls[c].pc # "idle") ~> (icalls[c].pc = "settled")

====
